---- MODULE Spec2Model ----
(***************************************************************************)
(* pydom: a JavaScript-like DOM wrapper (class Element, class Document)    *)
(* over a BeautifulSoup tree.  The model keeps the tree store that the     *)
(* wrapped Tag objects form (parent, contents, sibling and element links), *)
(* the Element handles (tag, _events, _style) and one action per method of *)
(* pydom.py.  The library calls a method makes (Tag.insert, Tag.extract,   *)
(* Tag.clear, Tag.decompose, insert_before, insert_after, list.index with  *)
(* Tag.__eq__, the parser) are modelled by what they do to that store.     *)
(***************************************************************************)
EXTENDS Integers, Sequences, FiniteSets, TLC

\* ------------------------------------------------------------- bounds
\* Size of the pool of node objects (Tag, NavigableString, BeautifulSoup).
MaxNodes == 6
\* Number of calls a run of the tree machine makes.
MaxCalls == 3

None == 0
\* Marks a library loop that never ends (the call does not return).
Hang == -1
Node == 1..MaxNodes
\* The names createElement is called with.
TagNames == {"div", "p"}
\* Number of Element handles a run of the handle machine holds.
MaxHandles == 2
\* Number of calls a run of the handle machine makes.
MaxElCalls == 5
Handle == 1..MaxHandles

\* ------------------------------------------------------- list helpers
Min(a, b) == IF a < b THEN a ELSE b

\* 1-based index of the first element identical to x, 0 when absent.
IndexOf(seq, x) ==
    IF \E i \in 1..Len(seq) : seq[i] = x
    THEN CHOOSE i \in 1..Len(seq) : seq[i] = x /\ \A j \in 1..(i - 1) : seq[j] # x
    ELSE 0

RemoveAt(seq, i) == SubSeq(seq, 1, i - 1) \o SubSeq(seq, i + 1, Len(seq))

\* list.insert(pos, x) with a 0-based pos in 0..Len(seq).
InsertAt(seq, pos, x) == SubSeq(seq, 1, pos) \o <<x>> \o SubSeq(seq, pos + 1, Len(seq))

SeqToSet(seq) == {seq[i] : i \in 1..Len(seq)}

\* A dict (insertion-ordered) is a sequence of <<key, value>> with unique keys.
Has(d, k) == \E i \in 1..Len(d) : d[i][1] = k
Get(d, k) == d[CHOOSE i \in 1..Len(d) : d[i][1] = k][2]
\* d[k] = v: in place when k is a key of d, else a new last item.
\* d[k] = v done wrongly: the key is dropped and added again as the last item.
PutLast(d, k, v) ==
    LET Other(item) == item[1] # k IN SelectSeq(d, Other) \o << <<k, v>> >>

Put(d, k, v) ==
    IF Has(d, k) THEN [i \in 1..Len(d) |-> IF d[i][1] = k THEN <<k, v>> ELSE d[i]]
    ELSE d \o << <<k, v>> >>

\* A str is a sequence of symbols: ":", ";" and " " are the characters the code
\* looks for, any other symbol stands for a run of other characters.
\* str.split(sep)
RECURSIVE Split(_, _)
Split(str, sep) ==
    IF IndexOf(str, sep) = 0 THEN <<str>>
    ELSE <<SubSeq(str, 1, IndexOf(str, sep) - 1)>>
             \o Split(SubSeq(str, IndexOf(str, sep) + 1, Len(str)), sep)

RECURSIVE LStrip(_)
LStrip(str) == IF str # <<>> /\ str[1] = " " THEN LStrip(Tail(str)) ELSE str
RECURSIVE RStrip(_)
RStrip(str) ==
    IF str # <<>> /\ str[Len(str)] = " " THEN RStrip(SubSeq(str, 1, Len(str) - 1)) ELSE str
\* str.strip()
Strip(str) == RStrip(LStrip(str))

\* sep.join(list)
RECURSIVE Join(_, _)
Join(list, sep) ==
    IF list = <<>> THEN <<>>
    ELSE IF Len(list) = 1 THEN list[1]
    ELSE list[1] \o sep \o Join(Tail(list), sep)

\* ---------------------------------------------------------- the store
\* kind: "free" (no object), "doc" (a BeautifulSoup object), "tag", "text"
\* (NavigableString), "dead" (decomposed: __dict__ cleared, contents = []).
EmptyStore ==
    [kind     |-> [n \in Node |-> "free"],
     name     |-> [n \in Node |-> ""],
     txt      |-> [n \in Node |-> <<>>],
     attrs    |-> [n \in Node |-> <<>>],
     parent   |-> [n \in Node |-> None],
     contents |-> [n \in Node |-> <<>>],
     ns       |-> [n \in Node |-> None],
     ps       |-> [n \in Node |-> None],
     ne       |-> [n \in Node |-> None],
     pe       |-> [n \in Node |-> None],
     err      |-> ""]

Raise(s, e) == [s EXCEPT !.err = e]

\* All fields of node n reset; k is "free" (collected) or "dead" (decomposed).
Reset(s, n, k) ==
    [s EXCEPT !.kind[n] = k, !.name[n] = "", !.txt[n] = <<>>, !.attrs[n] = <<>>,
              !.parent[n] = None, !.contents[n] = <<>>,
              !.ns[n] = None, !.ps[n] = None, !.ne[n] = None, !.pe[n] = None]

HasFree(s) == \E n \in Node : s.kind[n] = "free"
\* The slot of the next new object: the lowest free one (None when full).
FreeId(s) ==
    IF HasFree(s)
    THEN CHOOSE n \in Node : s.kind[n] = "free" /\ \A m \in Node : s.kind[m] = "free" => n <= m
    ELSE None

\* A new object of the given kind in slot n (n = FreeId(s)).
MkNode(s, n, k, nm, t) == [s EXCEPT !.kind[n] = k, !.name[n] = nm, !.txt[n] = t]

IsTagLike(s, n) == s.kind[n] \in {"tag", "doc", "dead"}

\* PageElement._last_descendant(is_initialized=False): follow contents[-1].
RECURSIVE LastByContents(_, _, _)
LastByContents(s, n, fuel) ==
    IF IsTagLike(s, n) /\ s.contents[n] # <<>>
    THEN IF fuel = 0 THEN Hang
         ELSE LastByContents(s, s.contents[n][Len(s.contents[n])], fuel - 1)
    ELSE n

\* PageElement._last_descendant(): next_sibling.previous_element when there is
\* a next sibling, else by contents.
LastDescendant(s, n) ==
    IF s.ns[n] # None THEN s.pe[s.ns[n]] ELSE LastByContents(s, n, MaxNodes)

\* f with f[k] = v when cond holds.
Upd(f, k, v, cond) == IF cond THEN [f EXCEPT ![k] = v] ELSE f

\* The second half of extract: n is out of its parent's contents, last is its
\* last descendant; close the element chain and the sibling chain around n.
Unlink(s, n, last) ==
    IF last = Hang THEN Raise(s, "Hang")
    ELSE IF last = None THEN Raise(s, "AttributeError")
    ELSE
    LET nxt == s.ne[last]
        prv == s.pe[n]
        nsb == s.ns[n]
        psb == s.ps[n]
    IN  [s EXCEPT
           !.ne = [Upd(@, prv, nxt, prv # None /\ prv # nxt) EXCEPT ![last] = None],
           !.pe = [Upd(@, nxt, prv, nxt # None /\ nxt # prv) EXCEPT ![n] = None],
           !.parent[n] = None,
           !.ns = [Upd(@, psb, nsb, psb # None /\ psb # nsb) EXCEPT ![n] = None],
           !.ps = [Upd(@, nsb, psb, nsb # None /\ nsb # psb) EXCEPT ![n] = None]]

\* del self.parent.contents[idx], then the rest of extract.
Detach(s, n) == Unlink(s, n, LastDescendant(s, n))

\* PageElement.extract(): rip n out of the tree.
TagExtract(s, n) ==
    IF s.err # "" THEN s
    ELSE IF s.parent[n] = None THEN Detach(s, n)
    ELSE IF IndexOf(s.contents[s.parent[n]], n) = 0 THEN Raise(s, "ValueError")
    ELSE Detach([s EXCEPT !.contents[s.parent[n]] = RemoveAt(@, IndexOf(@, n))], n)

\* The while loop of Tag.insert that looks for the element that follows the
\* new last child: the next sibling of the nearest ancestor that has one.
RECURSIVE ParentsNextSibling(_, _, _)
ParentsNextSibling(s, p, fuel) ==
    IF p = None THEN None
    ELSE IF s.ns[p] # None THEN s.ns[p]
    ELSE IF fuel = 0 THEN Hang
    ELSE ParentsNextSibling(s, s.parent[p], fuel - 1)

\* Tag.insert, last part: clast.next_element = nxt, the back link, and the
\* insertion into self.contents.
LinkTail(s, self, pos, c, clast, nxt) ==
    IF nxt = Hang THEN Raise(s, "Hang")
    ELSE [s EXCEPT !.ne[clast] = nxt,
                   !.pe = Upd(@, nxt, clast, nxt # None),
                   !.contents[self] = InsertAt(@, pos, c)]

\* Tag.insert, the two branches on position >= len(self.contents).
LinkNext(s, self, pos, c, clast) ==
    IF clast = Hang THEN Raise(s, "Hang")
    ELSE IF pos >= Len(s.contents[self])
    THEN LinkTail([s EXCEPT !.ns[c] = None], self, pos, c, clast,
                  ParentsNextSibling([s EXCEPT !.ns[c] = None], self, MaxNodes))
    ELSE LinkTail([s EXCEPT !.ns[c] = s.contents[self][pos + 1],
                            !.ps[s.contents[self][pos + 1]] = c],
                  self, pos, c, clast, s.contents[self][pos + 1])

\* Tag.insert, first part: the parent, the previous sibling and the previous
\* element of c; plast is the last descendant of the previous sibling.
LinkPrev(s, self, pos, c, plast) ==
    IF plast = Hang THEN Raise(s, "Hang")
    ELSE IF pos = 0
    THEN [s EXCEPT !.parent[c] = self, !.ps[c] = None, !.pe[c] = self, !.ne[self] = c]
    ELSE [s EXCEPT !.parent[c] = self, !.ps[c] = s.contents[self][pos],
                   !.ns[s.contents[self][pos]] = c, !.pe[c] = plast, !.ne[plast] = c]

LinkRest(s, self, pos, c) ==
    IF s.err # "" THEN s ELSE LinkNext(s, self, pos, c, LastByContents(s, c, MaxNodes))

\* Tag.insert after the move: wire c in at 0-based position pos of self.
Link(s, self, pos, c) ==
    IF s.err # "" THEN s
    ELSE LinkRest(LinkPrev(s, self, pos, c,
                           IF pos = 0 THEN self
                           ELSE LastByContents(s, s.contents[self][pos], MaxNodes)),
                  self, pos, c)

\* The position after the move: one less when c sits in self before it.
MovedPos(s, self, position, c) ==
    LET pos0 == Min(position, Len(s.contents[self]))
    IN  IF s.parent[c] = self /\ IndexOf(s.contents[self], c) - 1 < pos0
        THEN pos0 - 1 ELSE pos0

\* Tag.insert(position, new_child), position 0-based.
TagInsert(s, self, position, c) ==
    IF s.err # "" THEN s
    ELSE IF c = self THEN Raise(s, "ValueError")
    ELSE IF s.parent[c] = self /\ IndexOf(s.contents[self], c) = 0 THEN Raise(s, "ValueError")
    ELSE IF s.parent[c] # None
    THEN Link(TagExtract(s, c), self, MovedPos(s, self, position, c), c)
    ELSE Link(s, self, MovedPos(s, self, position, c), c)

\* Tag.append(tag) == self.insert(len(self.contents), tag)
TagAppend(s, self, c) == IF s.err # "" THEN s ELSE TagInsert(s, self, Len(s.contents[self]), c)


\* Tag.decompose(): extract, then walk next_element clearing every object met.
RECURSIVE Destroy(_, _, _)
Destroy(s, i, fuel) ==
    IF i = None \/ fuel = 0 THEN s
    ELSE Destroy(Reset(s, i, "dead"), s.ne[i], fuel - 1)

DestroyFrom(s, n) == IF s.err # "" THEN s ELSE Destroy(s, n, MaxNodes)

Decompose(s, n) == DestroyFrom(TagExtract(s, n), n)

\* Tag.clear(): for element in self.contents[:]: element.extract()
RECURSIVE ExtractEach(_, _, _)
ExtractEach(s, copy, i) ==
    IF s.err # "" \/ i > Len(copy) THEN s
    ELSE ExtractEach(TagExtract(s, copy[i]), copy, i + 1)

TagClear(s, n) == ExtractEach(s, s.contents[n], 1)

\* parent.insert(parent.index(self) + off, c) once c is extracted.
InsertNextTo(s, parent, self, off, c) ==
    IF s.err # "" THEN s
    ELSE IF IndexOf(s.contents[parent], self) = 0 THEN Raise(s, "ValueError")
    ELSE TagInsert(s, parent, IndexOf(s.contents[parent], self) - 1 + off, c)

\* PageElement.insert_before(c) with one argument.
InsertBeforeEl(s, self, c) ==
    IF s.err # "" THEN s
    ELSE IF s.parent[self] = None THEN Raise(s, "ValueError")
    ELSE IF c = self THEN Raise(s, "ValueError")
    ELSE InsertNextTo(TagExtract(s, c), s.parent[self], self, 0, c)

\* PageElement.insert_after(c) with one argument.
InsertAfterEl(s, self, c) ==
    IF s.err # "" THEN s
    ELSE IF s.parent[self] = None THEN Raise(s, "ValueError")
    ELSE IF c = self THEN Raise(s, "ValueError")
    ELSE InsertNextTo(TagExtract(s, c), s.parent[self], self, 1, c)

\* Tag.__eq__ / str.__eq__ as list.index applies it: "T", "F", or "R" when the
\* recursion over the children does not end (RecursionError).
RECURSIVE StructEq(_, _, _, _)
StructEq(s, a, b, fuel) ==
    IF a = b THEN "T"
    ELSE IF s.kind[a] = "text" \/ s.kind[b] = "text"
    THEN IF s.kind[a] = "text" /\ s.kind[b] = "text" /\ s.txt[a] = s.txt[b] THEN "T" ELSE "F"
    ELSE IF \/ s.name[a] # s.name[b]
            \/ SeqToSet(s.attrs[a]) # SeqToSet(s.attrs[b])
            \/ Len(s.contents[a]) # Len(s.contents[b])
    THEN "F"
    ELSE IF s.contents[a] = <<>> THEN "T"
    ELSE IF fuel = 0 THEN "R"
    ELSE LET r == [i \in 1..Len(s.contents[a]) |->
                      StructEq(s, s.contents[a][i], s.contents[b][i], fuel - 1)]
             \* the loop stops at the first child that differs
             stop == {i \in 1..Len(r) : r[i] # "T"}
         IN  IF stop = {} THEN "T"
             ELSE r[CHOOSE i \in stop : \A j \in stop : i <= j]

EqFuel == MaxNodes * MaxNodes

\* list.index(x) over a contents list: 1-based index of the first element
\* equal (==) to x, 0 when there is none (ValueError), -1 for RecursionError.
EqIndex(s, seq, x) ==
    LET r    == [i \in 1..Len(seq) |-> StructEq(s, seq[i], x, EqFuel)]
        stop == {i \in 1..Len(seq) : r[i] # "F"}
        k    == CHOOSE i \in stop : \A j \in stop : i <= j
    IN  IF stop = {} THEN 0 ELSE IF r[k] = "R" THEN -1 ELSE k


\* ------------------------------------------------- the external parser
\* HTML text is a sequence of tokens: a start tag (with its attributes), an end
\* tag, or one character of text.
OpenWith(nm, a) == [t |-> "open", v |-> nm, a |-> a]
Open(nm) == OpenWith(nm, <<>>)
Close(nm) == [t |-> "close", v |-> nm, a |-> <<>>]
Chr(c) == [t |-> "chr", v |-> c, a |-> <<>>]

\* The whitespace-separated tokens of a str.
Words(str) == LET Filled(w) == w # <<>> IN SelectSeq(Split(str, " "), Filled)

\* The parser keeps the value of a class attribute as the list of its tokens.
ParsedAttrs(a) ==
    [i \in 1..Len(a) |-> IF a[i][1] = "class" THEN <<a[i][1], Words(a[i][2])>> ELSE a[i]]

\* str(tag) writes a list value as its tokens joined with blanks.
WrittenAttrs(a) ==
    [i \in 1..Len(a) |-> IF a[i][1] = "class" THEN <<a[i][1], Join(a[i][2], <<" ">>)>> ELSE a[i]]

\* A new Tag / NavigableString in the lowest free slot, appended to parent.
NewChild(s, parent, k, nm, t, a) ==
    IF ~HasFree(s) THEN Raise(s, "NoMem")
    ELSE TagAppend([MkNode(s, FreeId(s), k, nm, t) EXCEPT !.attrs[FreeId(s)] = a],
                   parent, FreeId(s))

\* BeautifulSoup.endData: the pending characters become one NavigableString.
Flush(s, stack, pend) ==
    IF s.err # "" \/ pend = <<>> THEN s
    ELSE NewChild(s, stack[Len(stack)], "text", "", pend, <<>>)

\* BeautifulSoup._popToTag: close up to the most recent open tag of that name.
PopTo(s, stack, nm) ==
    LET open == {j \in 2..Len(stack) : s.name[stack[j]] = nm}
    IN  IF open = {} THEN stack
        ELSE SubSeq(stack, 1, (CHOOSE j \in open : \A k \in open : k <= j) - 1)

RECURSIVE ParseFrom(_, _, _, _, _)
\* One start or end tag, the pending text already flushed into s.
ParseTag(s, toks, i, stack) ==
    IF s.err # "" THEN s
    ELSE IF toks[i].t = "close"
    THEN ParseFrom(s, toks, i + 1, PopTo(s, stack, toks[i].v), <<>>)
    ELSE ParseFrom(NewChild(s, stack[Len(stack)], "tag", toks[i].v, <<>>, ParsedAttrs(toks[i].a)),
                   toks, i + 1, stack \o <<FreeId(s)>>, <<>>)

ParseFrom(s, toks, i, stack, pend) ==
    IF s.err # "" THEN s
    ELSE IF i > Len(toks) THEN Flush(s, stack, pend)
    ELSE IF toks[i].t = "chr" THEN ParseFrom(s, toks, i + 1, stack, pend \o <<toks[i].v>>)
    ELSE ParseTag(Flush(s, stack, pend), toks, i, stack)

\* BeautifulSoup(html_str, "html.parser"): a new BeautifulSoup object in slot
\* FreeId(s) holding the parsed forest.
Parse(s, toks) ==
    IF s.err # "" THEN s
    ELSE IF ~HasFree(s) THEN Raise(s, "NoMem")
    ELSE ParseFrom(MkNode(s, FreeId(s), "doc", "[document]", <<>>), toks, 1,
                   <<FreeId(s)>>, <<>>)

\* ------------------------------------------------ the host's collector
RECURSIVE Subtree(_, _, _)
Subtree(s, n, fuel) ==
    {n} \cup (IF fuel = 0 THEN {}
              ELSE UNION {Subtree(s, s.contents[n][i], fuel - 1) : i \in 1..Len(s.contents[n])})

\* Objects no caller can reach are collected when a method returns: what the
\* method's parser created and did not hand over to an object that existed
\* before the call or that the method returns (given), and strings that are in
\* no tree (no handle wraps a string).
Collect(old, s, given) ==
    LET kept == UNION {Subtree(s, o, MaxNodes) :
                          o \in {n \in Node : old.kind[n] # "free"} \cup given}
        inTree == UNION {SeqToSet(s.contents[n]) : n \in Node}
        gone == {n \in Node : \/ old.kind[n] = "free" /\ s.kind[n] # "free" /\ n \notin kept
                              \/ s.kind[n] = "text" /\ s.parent[n] = None /\ n \notin inTree}
    IN  [kind     |-> [n \in Node |-> IF n \in gone THEN "free" ELSE s.kind[n]],
         name     |-> [n \in Node |-> IF n \in gone THEN "" ELSE s.name[n]],
         txt      |-> [n \in Node |-> IF n \in gone THEN <<>> ELSE s.txt[n]],
         attrs    |-> [n \in Node |-> IF n \in gone THEN <<>> ELSE s.attrs[n]],
         parent   |-> [n \in Node |-> IF n \in gone THEN None ELSE s.parent[n]],
         contents |-> [n \in Node |-> IF n \in gone THEN <<>> ELSE s.contents[n]],
         ns       |-> [n \in Node |-> IF n \in gone THEN None ELSE s.ns[n]],
         ps       |-> [n \in Node |-> IF n \in gone THEN None ELSE s.ps[n]],
         ne       |-> [n \in Node |-> IF n \in gone THEN None ELSE s.ne[n]],
         pe       |-> [n \in Node |-> IF n \in gone THEN None ELSE s.pe[n]],
         err      |-> ""]

\* ---------------------------------------------- Python loops over a list
\* One pass of a loop body on child c.
Body(s, mode, self, c) ==
    CASE mode = "append" -> TagAppend(s, self, c)
      [] mode = "front"  -> TagInsert(s, self, 0, c)
      [] mode = "before" -> InsertBeforeEl(s, self, c)
      [] mode = "after"  -> InsertAfterEl(s, self, c)

\* for child in src.contents (step 1, from 1) or in reversed(src.contents)
\* (step -1, from the length): the iterator indexes the live list, which the
\* body shrinks when it moves the child away.
RECURSIVE ForEach(_, _, _, _, _, _)
ForEach(s, src, i, step, mode, self) ==
    IF s.err # "" \/ i < 1 \/ i > Len(s.contents[src]) THEN s
    ELSE ForEach(Body(s, mode, self, s.contents[src][i]), src, i + step, step, mode, self)


\* ------------------------------------------------------ class Element
\* An argument that is not an Element instance.
NotEl == -2

\* The text a caller passes: HTML fragments "", "<p></p>", "<p></p><div></div>"
\* and "x", and the document Document(html) is built from.
HtmlInputs ==
    << <<>>,
       <<Open("p"), Close("p")>>,
       <<Open("p"), Close("p"), Open("div"), Close("div")>>,
       <<Chr("x")>> >>
\* <div id="n"><p></p></div>
InitHtml == <<OpenWith("div", << <<"id", <<"n">> >> >>), Open("p"), Close("p"), Close("div")>>
TextInputs == {<<"y">>}
Positions == {"beforebegin", "afterbegin", "beforeend", "afterend", "sideways"}

ElContent(n) == [k |-> "el", n |-> n, h |-> <<>>]
StrContent(h) == [k |-> "str", n |-> None, h |-> h]
OtherContent == [k |-> "other", n |-> None, h |-> <<>>]

\* for child in soup.contents: self.tag.append(child)
AppendAll(s, soup, self) == IF s.err # "" THEN s ELSE ForEach(s, soup, 1, 1, "append", self)

\* for child in reversed(soup.contents): body
ForEachReversed(s, soup, mode, self) ==
    IF s.err # "" THEN s ELSE ForEach(s, soup, Len(s.contents[soup]), -1, mode, self)

\* The rest of the innerHTML setter once the tag is cleared.
FillFrom(s, self, html) == AppendAll(Parse(s, html), FreeId(s), self)

\* innerHTML setter
setInnerHTML(s, self, html) == FillFrom(TagClear(s, self), self, html)

\* self.tag.append(text_str): the str becomes a new NavigableString.
AppendString(s, self, text) ==
    IF s.err # "" THEN s ELSE NewChild(s, self, "text", "", text, <<>>)

\* textContent setter
setTextContent(s, self, text) == AppendString(TagClear(s, self), self, text)

remove(s, self) == Decompose(s, self)

appendChild(s, self, child) ==
    IF child = NotEl THEN Raise(s, "TypeError") ELSE TagAppend(s, self, child)

prepend(s, self, child) ==
    IF child = NotEl THEN Raise(s, "TypeError")
    ELSE IF s.contents[self] # <<>> THEN TagInsert(s, self, 0, child)
    ELSE TagAppend(s, self, child)

\* self.tag.contents.index(x.tag), then act at that index (1-based here).
insertBefore(s, self, new_child, reference_child) ==
    IF new_child = NotEl \/ reference_child = NotEl THEN Raise(s, "TypeError")
    ELSE LET index == EqIndex(s, s.contents[self], reference_child)
         IN  IF index = 0 THEN Raise(s, "ValueError")
             ELSE IF index = -1 THEN Raise(s, "RecursionError")
             ELSE TagInsert(s, self, index - 1, new_child)

replaceChild(s, self, new_child, old_child) ==
    IF new_child = NotEl \/ old_child = NotEl THEN Raise(s, "TypeError")
    ELSE LET index == EqIndex(s, s.contents[self], old_child)
         IN  IF index = 0 THEN Raise(s, "ValueError")
             ELSE IF index = -1 THEN Raise(s, "RecursionError")
             ELSE [s EXCEPT !.contents[self][index] = new_child]

append(s, self, content) ==
    IF content.k = "el" THEN TagAppend(s, self, content.n)
    ELSE IF content.k = "str" THEN AppendAll(Parse(s, content.h), FreeId(s), self)
    ELSE Raise(s, "TypeError")

prependText(s, self, content) ==
    IF content.k = "el"
    THEN IF s.contents[self] # <<>> THEN TagInsert(s, self, 0, content.n)
         ELSE TagAppend(s, self, content.n)
    ELSE IF content.k = "str"
    THEN ForEachReversed(Parse(s, content.h), FreeId(s), "front", self)
    ELSE Raise(s, "TypeError")

\* The branches of insertAdjacentHTML on position, new_content parsed into soup.
PlaceAll(s, soup, self, position) ==
    IF s.err # "" THEN s
    ELSE IF position = "beforebegin" THEN ForEachReversed(s, soup, "before", self)
    ELSE IF position = "afterbegin" THEN ForEachReversed(s, soup, "front", self)
    ELSE IF position = "beforeend" THEN ForEach(s, soup, 1, 1, "append", self)
    ELSE IF position = "afterend" THEN ForEach(s, soup, 1, 1, "after", self)
    ELSE Raise(s, "ValueError")

insertAdjacentHTML(s, self, position, html_str) ==
    PlaceAll(Parse(s, html_str), FreeId(s), self, position)

insertAdjacentElement(s, self, position, element) ==
    IF element = NotEl THEN Raise(s, "TypeError")
    ELSE IF position = "beforebegin" THEN InsertBeforeEl(s, self, element)
    ELSE IF position = "afterbegin" THEN TagInsert(s, self, 0, element)
    ELSE IF position = "beforeend" THEN TagAppend(s, self, element)
    ELSE IF position = "afterend" THEN InsertAfterEl(s, self, element)
    ELSE Raise(s, "ValueError")

\* Document.createElement: self.soup.new_tag(tag_name)
createElement(s, tag_name) ==
    IF ~HasFree(s) THEN Raise(s, "NoMem") ELSE MkNode(s, FreeId(s), "tag", tag_name, <<>>)

\* Document.__init__
NewDocument(html) == Parse(EmptyStore, html)

\* The BeautifulSoup object of the Document: the first object made.
DocSoup == FreeId(EmptyStore)

\* Tag.descendants: the next_element chain from the first child up to what
\* follows the last descendant.
RECURSIVE Chain(_, _, _, _)
Chain(s, cur, stop, fuel) ==
    IF cur = stop \/ cur = None \/ fuel = 0 THEN <<>>
    ELSE <<cur>> \o Chain(s, s.ne[cur], stop, fuel - 1)

StopNode(s, last) == IF last = Hang \/ last = None THEN None ELSE s.ne[last]

Descendants(s, n) ==
    IF s.contents[n] = <<>> THEN <<>>
    ELSE Chain(s, s.contents[n][1], StopNode(s, LastDescendant(s, n)), MaxNodes)

\* The first element of seq that is in set, None when there is none.
FirstIn(seq, set) ==
    IF \E i \in 1..Len(seq) : seq[i] \in set
    THEN seq[CHOOSE i \in 1..Len(seq) : seq[i] \in set /\ \A j \in 1..(i - 1) : seq[j] \notin set]
    ELSE None

\* soup.find(id=element_id)
FindById(s, soup, element_id) ==
    FirstIn(Descendants(s, soup),
            {n \in Node : /\ s.kind[n] = "tag"
                          /\ Has(s.attrs[n], "id")
                          /\ Get(s.attrs[n], "id") = element_id})

\* soup.find(name)
FindByName(s, soup, nm) ==
    FirstIn(Descendants(s, soup), {n \in Node : s.kind[n] = "tag" /\ s.name[n] = nm})

\* soup.new_tag(nm) appended to parent: the new tag is in slot FreeId(s).
NewTagIn(s, parent, nm) ==
    IF s.err # "" THEN s ELSE NewChild(s, parent, "tag", nm, <<>>, <<>>)

\* html_tag = new_tag("html"); html_tag.append(body_tag); self.soup.append(html_tag),
\* body_tag made first, in slot body.
WrapInHtml(s, body) ==
    IF s.err # "" THEN s
    ELSE IF ~HasFree(s) THEN Raise(s, "NoMem")
    ELSE TagAppend(TagAppend(MkNode(s, FreeId(s), "tag", "html", <<>>), FreeId(s), body),
                   DocSoup, FreeId(s))

\* Document.write, its first part: a body is made when soup.body finds none.
EnsureBody(s) ==
    IF FindByName(s, DocSoup, "body") # None THEN s
    ELSE IF FindByName(s, DocSoup, "html") # None
    THEN NewTagIn(s, FindByName(s, DocSoup, "html"), "body")
    ELSE WrapInHtml(createElement(s, "body"), FreeId(s))

\* self.soup.body.clear(), then the parsed nodes appended to self.soup.body
FillBody(s, html_str) ==
    IF s.err # "" THEN s
    ELSE AppendAll(Parse(TagClear(s, FindByName(s, DocSoup, "body")), html_str),
                   FreeId(s), FindByName(s, DocSoup, "body"))

\* Document.write
write(s, html_str) == FillBody(EnsureBody(s), html_str)

\* tag.string = value: the tag cleared, then the new string appended
SetString(s, tag, value) == AppendString(TagClear(s, tag), tag, value)

\* head_tag = new_tag("head"); head_tag.append(new_title), new_title in slot
\* title; then html.insert(0, head_tag) or self.soup.insert(0, head_tag)
NewHead(s, title) ==
    IF s.err # "" THEN s
    ELSE IF ~HasFree(s) THEN Raise(s, "NoMem")
    ELSE TagInsert(TagAppend(MkNode(s, FreeId(s), "tag", "head", <<>>), FreeId(s), title),
                   IF FindByName(s, DocSoup, "html") # None
                   THEN FindByName(s, DocSoup, "html") ELSE DocSoup,
                   0, FreeId(s))

\* The else branch of the title setter, new_title made in slot title.
PlaceTitle(s, title, value) ==
    IF s.err # "" THEN s
    ELSE IF FindByName(s, DocSoup, "head") # None
    THEN TagAppend(SetString(s, title, value), FindByName(s, DocSoup, "head"), title)
    ELSE NewHead(SetString(s, title, value), title)

\* Document.title (setter)
setTitle(s, value) ==
    IF FindByName(s, DocSoup, "title") # None
    THEN SetString(s, FindByName(s, DocSoup, "title"), value)
    ELSE PlaceTitle(createElement(s, "title"), FreeId(s), value)

\* The strings under n in document order, concatenated: n.get_text()
GetText(s, n) ==
    Join([i \in 1..Len(Descendants(s, n)) |->
             IF s.kind[Descendants(s, n)[i]] = "text" THEN s.txt[Descendants(s, n)[i]] ELSE <<>>],
         <<>>)

\* Document.title (getter)
getTitle(s) ==
    IF FindByName(s, DocSoup, "title") # None THEN GetText(s, FindByName(s, DocSoup, "title"))
    ELSE <<>>

\* An Element: the tag it wraps, _events (event -> list of callbacks) and
\* _style (key -> value); err is the exception __init__ raised.
BlankElement(tag) == [tag |-> tag, events |-> <<>>, style |-> <<>>, err |-> ""]

\* for s in tag["style"].split(";"): ... self._style[key.strip()] = value.strip()
RECURSIVE SeedStyle(_, _, _)
SeedStyle(el, segs, i) ==
    IF i > Len(segs) \/ el.err # "" THEN el
    ELSE IF Strip(segs[i]) = <<>> THEN SeedStyle(el, segs, i + 1)
    ELSE IF Len(Split(segs[i], ":")) # 2 THEN [el EXCEPT !.err = "ValueError"]
    ELSE SeedStyle([el EXCEPT !.style = Put(@, Strip(Split(segs[i], ":")[1]),
                                               Strip(Split(segs[i], ":")[2]))],
                   segs, i + 1)

\* Element.__init__(tag)
ElementInit(s, tag) ==
    IF tag = None THEN [BlankElement(None) EXCEPT !.err = "AttributeError"]
    ELSE IF Has(s.attrs[tag], "style")
    THEN SeedStyle(BlankElement(tag), Split(Get(s.attrs[tag], "style"), ";"), 1)
    ELSE BlankElement(tag)

\* dict.update(style_dict), item by item
RECURSIVE Update(_, _, _)
Update(d, items, i) ==
    IF i > Len(items) THEN d ELSE Update(Put(d, items[i][1], items[i][2]), items, i + 1)

\* "; ".join(f"{k}: {v}" for k, v in style.items())
StyleText(style) ==
    Join([i \in 1..Len(style) |-> style[i][1] \o <<":", " ">> \o style[i][2]], <<";", " ">>)

\* style setter: the handle's mapping, then the tag's attribute
setStyle(el, style_dict) == [el EXCEPT !.style = Update(@, style_dict, 1)]
setStyleAttr(s, el) == [s EXCEPT !.attrs[el.tag] = Put(@, "style", StyleText(el.style))]

\* del d[k]
Del(d, k) == LET Other(item) == item[1] # k IN SelectSeq(d, Other)

\* self.tag.get("class", [])
classList(s, tag) == IF Has(s.attrs[tag], "class") THEN Get(s.attrs[tag], "class") ELSE <<>>

addClass(s, tag, cls) ==
    IF IndexOf(classList(s, tag), cls) = 0
    THEN [s EXCEPT !.attrs[tag] = Put(@, "class", Append(classList(s, tag), cls))]
    ELSE s

\* classes.remove(cls) takes the first occurrence out.
removeClass(s, tag, cls) ==
    IF IndexOf(classList(s, tag), cls) # 0
    THEN IF RemoveAt(classList(s, tag), IndexOf(classList(s, tag), cls)) # <<>>
         THEN [s EXCEPT !.attrs[tag] =
                  Put(@, "class", RemoveAt(classList(s, tag), IndexOf(classList(s, tag), cls)))]
         ELSE [s EXCEPT !.attrs[tag] = Del(@, "class")]
    ELSE s

\* The selectors a caller passes: the class selector of a token (".a").
Selectors == {<<"a">>}

\* The top of the parent chain of n, where select_one starts from; Hang when
\* the chain does not end.
RECURSIVE TopOf(_, _, _)
TopOf(s, n, fuel) ==
    IF s.parent[n] = None THEN n
    ELSE IF fuel = 0 THEN Hang
    ELSE TopOf(s, s.parent[n], fuel - 1)

\* What :scope stands for in tag.select_one: the tag itself, or the first tag
\* under it when the tag is the BeautifulSoup object at the top.
ScopeOf(s, n) ==
    IF s.kind[n] = "doc" /\ s.parent[n] = None
    THEN FirstIn(s.contents[n], {c \in Node : s.kind[c] = "tag"})
    ELSE n

\* matches: bool(self.tag.select_one(":scope" + selector)), a search of the
\* descendants of the tag for the scope element with the class; "T", "F" or
\* "Hang".
matches(s, n, selector) ==
    IF TopOf(s, n, MaxNodes) = Hang THEN "Hang"
    ELSE IF \E e \in SeqToSet(Descendants(s, n)) :
               /\ s.kind[e] = "tag"
               /\ e = ScopeOf(s, n)
               /\ IndexOf(classList(s, e), selector) # 0
    THEN "T" ELSE "F"

\* closest: el = self; while el is not None: return el when el.matches(selector),
\* else el = el.parentElement.  The node returned, None, or Hang when the loop
\* does not end.
RECURSIVE closest(_, _, _, _)
closest(s, n, selector, fuel) ==
    IF n = None THEN None
    ELSE IF matches(s, n, selector) = "Hang" THEN Hang
    ELSE IF matches(s, n, selector) = "T" THEN n
    ELSE IF fuel = 0 THEN Hang
    ELSE closest(s, s.parent[n], selector, fuel - 1)

ListenersOf(el, event) == IF Has(el.events, event) THEN Get(el.events, event) ELSE <<>>

addEventListener(el, event, callback) ==
    [el EXCEPT !.events = Put(@, event, Append(ListenersOf(el, event), callback))]

\* The comprehension done wrongly: only the first occurrence is left out.
WithoutFirst(list, callback) ==
    IF IndexOf(list, callback) = 0 THEN list ELSE RemoveAt(list, IndexOf(list, callback))

\* [cb for cb in list if cb != callback]
Without(list, callback) == LET Differs(cb) == cb # callback IN SelectSeq(list, Differs)

removeEventListener(el, event, callback) ==
    IF Has(el.events, event)
    THEN [el EXCEPT !.events = Put(@, event, Without(Get(@, event), callback))]
    ELSE el

\* The callbacks a caller registers: "plain" and "other" leave the handle
\* alone, "adder" calls addEventListener(event, plain) and "remover" calls
\* removeEventListener(event, plain) on the handle and event being dispatched.
Callbacks == {"plain", "other", "adder", "remover"}

\* for callback in self._events[event]: callback(*args): list is the list object
\* the loop iterates, cur the list self._events[event] is bound to, shared
\* whether they are still the same object (append works in place, the
\* comprehension of removeEventListener binds a new list); fired: the callbacks
\* invoked so far, passed: the arguments each of them was called with.
RECURSIVE Dispatch(_, _, _, _, _, _, _)
Dispatch(list, cur, shared, i, fired, args, passed) ==
    IF i > Len(list) THEN [list |-> cur, fired |-> fired, passed |-> passed]
    ELSE IF list[i] = "adder"
    THEN Dispatch(IF shared THEN Append(list, "plain") ELSE list, Append(cur, "plain"),
                  shared, i + 1, Append(fired, list[i]), args, Append(passed, args))
    ELSE IF list[i] = "remover"
    THEN Dispatch(list, Without(cur, "plain"), FALSE, i + 1, Append(fired, list[i]),
                  args, Append(passed, args))
    ELSE Dispatch(list, cur, shared, i + 1, Append(fired, list[i]), args, Append(passed, args))

\* triggerEvent: the handle afterwards, the callbacks invoked, in order, and
\* what each was called with.
triggerEvent(el, event, args) ==
    IF Has(el.events, event)
    THEN LET d == Dispatch(Get(el.events, event), Get(el.events, event), TRUE, 1, <<>>,
                           args, <<>>)
         IN  [el |-> [el EXCEPT !.events = Put(@, event, d.list)],
              fired |-> d.fired, passed |-> d.passed]
    ELSE [el |-> el, fired |-> <<>>, passed |-> <<>>]

\* str(tag): the start tag with its attributes, the children, the end tag; the
\* characters of a string; the children only for a BeautifulSoup object.
RECURSIVE Str(_, _, _)
Str(s, n, fuel) ==
    IF s.kind[n] = "text" THEN [i \in 1..Len(s.txt[n]) |-> Chr(s.txt[n][i])]
    ELSE IF fuel = 0 THEN <<[t |-> "deep", v |-> "", a |-> <<>>]>>
    ELSE LET inner == Join([i \in 1..Len(s.contents[n]) |-> Str(s, s.contents[n][i], fuel - 1)],
                           <<>>)
         IN  IF s.kind[n] = "tag"
             THEN <<OpenWith(s.name[n], WrittenAttrs(s.attrs[n]))>> \o inner
                     \o <<Close(s.name[n])>>
             ELSE inner

\* The tag cloneNode wraps: temp_soup.find(self.tag.name), temp_soup the new
\* BeautifulSoup object in the lowest free slot of s.
CloneTag(s, self) == FindByName(Parse(s, Str(s, self, MaxNodes)), FreeId(s), s.name[self])

ClearFound(s, tag) ==
    IF s.err # "" THEN s
    ELSE IF tag = None THEN Raise(s, "AttributeError")
    ELSE TagClear(s, tag)

CheckFound(s, tag) ==
    IF s.err # "" THEN s ELSE IF tag = None THEN Raise(s, "AttributeError") ELSE s

cloneNode(s, self, deep) ==
    IF \E i \in 1..Len(Str(s, self, MaxNodes)) : Str(s, self, MaxNodes)[i].t = "deep"
    THEN Raise(s, "RecursionError")
    ELSE IF deep THEN CheckFound(Parse(s, Str(s, self, MaxNodes)), CloneTag(s, self))
    ELSE ClearFound(Parse(s, Str(s, self, MaxNodes)), CloneTag(s, self))

\* --------------------------------------------------------- the machine
\* dom: the store; els: the Element handles the caller holds; last: the last
\* call made, its arguments and results and the exception it raised ('' for
\* none); calls: how many calls were made.
VARIABLES dom, els, last, calls

vars == <<dom, els, last, calls>>

\* What the caller can hold an Element for: a tag or a BeautifulSoup object
\* (parentElement of a top-level tag); as a child argument, a tag.
Targets == {n \in Node : dom.kind[n] \in {"tag", "doc"}}
Elems == {n \in Node : dom.kind[n] = "tag"}

Call(op) == [op |-> op, err |-> ""]

\* The call returns (it neither loops forever nor outgrows the node pool):
\* its result is the new store, its exception is recorded.  given: the new
\* objects the call returns to its caller.
Returns(r, op, given) ==
    /\ calls < MaxCalls
    /\ calls' = calls + 1
    /\ r.err \notin {"Hang", "NoMem"}
    /\ dom' = Collect(dom, r, given)
    /\ last' = [op |-> op, err |-> r.err]
    /\ UNCHANGED els

Return(r, op) == Returns(r, op, {})

Init ==
    /\ dom = NewDocument(InitHtml)
    /\ els = [h \in Handle |-> BlankElement(None)]
    /\ last = Call("Document")
    /\ calls = 0

CreateElement ==
    \E nm \in TagNames : Returns(createElement(dom, nm), "createElement", {FreeId(dom)})

AppendChild ==
    \E self \in Targets, c \in Elems \cup {NotEl} :
        Return(appendChild(dom, self, c), "appendChild")

Prepend ==
    \E self \in Targets, c \in Elems \cup {NotEl} :
        Return(prepend(dom, self, c), "prepend")

InsertBefore ==
    \E self \in Targets, c \in Elems \cup {NotEl}, r \in Elems :
        Return(insertBefore(dom, self, c, r), "insertBefore")

ReplaceChild ==
    \E self \in Targets, c \in Elems \cup {NotEl}, r \in Elems :
        Return(replaceChild(dom, self, c, r), "replaceChild")

\* What a caller passes as content: an Element, HTML text, or something else.
Contents ==
    {ElContent(c) : c \in Elems}
        \cup {StrContent(HtmlInputs[h]) : h \in 1..Len(HtmlInputs)}
        \cup {OtherContent}

AppendContent ==
    \E self \in Targets, content \in Contents : Return(append(dom, self, content), "append")

PrependText ==
    \E self \in Targets, content \in Contents :
        Return(prependText(dom, self, content), "prependText")

InsertAdjacentHTML ==
    \E self \in Targets, pos \in Positions, h \in 1..Len(HtmlInputs) :
        Return(insertAdjacentHTML(dom, self, pos, HtmlInputs[h]), "insertAdjacentHTML")

InsertAdjacentElement ==
    \E self \in Targets, pos \in Positions, c \in Elems \cup {NotEl} :
        Return(insertAdjacentElement(dom, self, pos, c), "insertAdjacentElement")

SetInnerHTML ==
    \E self \in Targets, h \in 1..Len(HtmlInputs) :
        Return(setInnerHTML(dom, self, HtmlInputs[h]), "innerHTML")

SetTextContent ==
    \E self \in Targets, t \in TextInputs :
        Return(setTextContent(dom, self, t), "textContent")

Remove ==
    \E self \in Targets : Return(remove(dom, self), "remove")

\* The objects cloneNode hands to its caller: the tag the new Element wraps
\* and, through its parent reference, the BeautifulSoup object it was parsed in.
Cloned(s, self) == {FreeId(s), CloneTag(s, self)} \ {None}

CloneNode ==
    \E self \in Targets, deep \in BOOLEAN :
        Returns(cloneNode(dom, self, deep), "cloneNode", Cloned(dom, self))

Next ==
    \/ CreateElement
    \/ AppendChild
    \/ Prepend
    \/ InsertBefore
    \/ ReplaceChild
    \/ AppendContent
    \/ PrependText
    \/ InsertAdjacentHTML
    \/ InsertAdjacentElement
    \/ SetInnerHTML
    \/ SetTextContent
    \/ Remove
    \/ CloneNode

Spec == Init /\ [][Next]_vars

\* ------------------------------------------------- the handle machine
\* The calls on Element handles: getElementById, the style setter and the
\* three event methods, on the document of Init.
IdInputs == {<<"n">>, <<"m">>}
EventNames == {"click", "key"}
StyleInputs ==
    { << <<<<"color">>, <<"red">>>> >>,
      << <<<<"color">>, <<"green">>>> >>,
      << <<<<"background">>, <<"blue">>>> >>,
      << <<<<"background">>, <<"blue">>>>, <<<<"color">>, <<"green">>>> >>,
      << <<<<"background">>, <<"url(http", ":", "//x)">>>> >> }

Held == {h \in Handle : els[h].tag # None}

\* The record of a call on handle h.
ElCall(op, err, h, event, cb, style, snap, fired) ==
    [op |-> op, err |-> err, h |-> h, event |-> event, cb |-> cb, style |-> style,
     snap |-> snap, fired |-> fired, args |-> <<>>, passed |-> <<>>, tag |-> None]

\* What a caller passes after the event name.
ArgInputs == {<<>>, <<"e">>}

ElReturns(rec) ==
    /\ calls < MaxElCalls
    /\ calls' = calls + 1
    /\ last' = rec

\* The caller keeps the Element a call returns in its next free variable.
FreeHandle == CHOOSE h \in Handle : h \notin Held /\ \A g \in Handle \ Held : h <= g

Keep(el) == [tag |-> el.tag, events |-> el.events, style |-> el.style, err |-> ""]

\* tag = self.soup.find(id=element_id); return Element(tag) if tag else None
GetElementById ==
    \E element_id \in IdInputs :
        LET tag == FindById(dom, DocSoup, element_id)
            el  == ElementInit(dom, tag)
        IN  /\ Held # Handle
            /\ ElReturns([ElCall("getElementById", IF tag = None THEN "" ELSE el.err,
                                 IF tag = None \/ el.err # "" THEN None ELSE FreeHandle,
                                 "", "", <<>>, <<>>, <<>>) EXCEPT !.tag = tag])
            /\ els' = IF tag = None \/ el.err # "" THEN els
                      ELSE [els EXCEPT ![FreeHandle] = Keep(el)]
            /\ UNCHANGED dom

SetStyle ==
    \E h \in Held, style_dict \in StyleInputs :
        /\ ElReturns(ElCall("style", "", h, "", "", style_dict, <<>>, <<>>))
        /\ els' = [els EXCEPT ![h] = setStyle(@, style_dict)]
        /\ dom' = setStyleAttr(dom, setStyle(els[h], style_dict))

AddEventListener ==
    \E h \in Held, event \in EventNames, cb \in Callbacks :
        /\ ElReturns(ElCall("addEventListener", "", h, event, cb, <<>>, <<>>, <<>>))
        /\ els' = [els EXCEPT ![h] = addEventListener(@, event, cb)]
        /\ UNCHANGED dom

RemoveEventListener ==
    \E h \in Held, event \in EventNames, cb \in Callbacks :
        /\ ElReturns(ElCall("removeEventListener", "", h, event, cb, <<>>, <<>>, <<>>))
        /\ els' = [els EXCEPT ![h] = removeEventListener(@, event, cb)]
        /\ UNCHANGED dom

TriggerEvent ==
    \E h \in Held, event \in EventNames, args \in ArgInputs :
        /\ ElReturns([ElCall("triggerEvent", "", h, event, "", <<>>,
                              ListenersOf(els[h], event),
                              triggerEvent(els[h], event, args).fired)
                         EXCEPT !.args = args,
                                !.passed = triggerEvent(els[h], event, args).passed])
        /\ els' = [els EXCEPT ![h] = triggerEvent(@, event, args).el]
        /\ UNCHANGED dom

NextEl ==
    \/ GetElementById
    \/ SetStyle
    \/ AddEventListener
    \/ RemoveEventListener
    \/ TriggerEvent

SpecEl == Init /\ [][NextEl]_vars

\* -------------------------------------------------- the class machine
\* addClass and removeClass on the tags of a parsed document.
MaxClassCalls == 4
ClassNames == {<<"a">>, <<"b">>}
\* <div class="a"><p></p></div> and <div class="a  a b"><p></p></div>
ClassHtmls ==
    { <<OpenWith("div", << <<"class", <<"a">>>> >>), Open("p"), Close("p"), Close("div")>>,
      <<OpenWith("div", << <<"class", <<"a", " ", " ", "a", " ", "b">>>> >>),
        Open("p"), Close("p"), Close("div")>> }

InitClass ==
    /\ dom \in {NewDocument(html) : html \in ClassHtmls}
    /\ els = [h \in Handle |-> BlankElement(None)]
    /\ last = Call("Document")
    /\ calls = 0

ClassReturns(op, tag, cls) ==
    /\ calls < MaxClassCalls
    /\ calls' = calls + 1
    /\ last' = [op |-> op, err |-> "", tag |-> tag, cls |-> cls]
    /\ UNCHANGED els

AddClass ==
    \E tag \in Elems, cls \in ClassNames :
        /\ ClassReturns("addClass", tag, cls)
        /\ dom' = addClass(dom, tag, cls)

RemoveClass ==
    \E tag \in Elems, cls \in ClassNames :
        /\ ClassReturns("removeClass", tag, cls)
        /\ dom' = removeClass(dom, tag, cls)

NextClass == AddClass \/ RemoveClass

SpecClass == InitClass /\ [][NextClass]_vars

\* ----------------------------------------------- the document machine
\* Document.write and the title setter on a Document the caller holds no
\* Element of.
MaxDocCalls == 3
\* "", <html></html>, <html><body></body></html>, <body><p></p></body>,
\* <html><head></head></html>, <html><head><title>x</title></head></html>,
\* <html><title>x</title></html>, <div><p></p></div>
DocHtmls ==
    { <<>>,
      <<Open("html"), Close("html")>>,
      <<Open("html"), Open("body"), Close("body"), Close("html")>>,
      <<Open("body"), Open("p"), Close("p"), Close("body")>>,
      <<Open("html"), Open("head"), Close("head"), Close("html")>>,
      <<Open("html"), Open("head"), Open("title"), Chr("x"), Close("title"), Close("head"),
        Close("html")>>,
      <<Open("html"), Open("title"), Chr("x"), Close("title"), Close("html")>>,
      <<Open("div"), Open("p"), Close("p"), Close("div")>> }

TitleInputs == {<<"y">>, <<"z">>}

InitDoc ==
    /\ dom \in {NewDocument(html) : html \in DocHtmls}
    /\ els = [h \in Handle |-> BlankElement(None)]
    /\ last = Call("Document")
    /\ calls = 0

\* What is left when the call returns: the objects under the Document's soup;
\* the rest is out of the caller's reach and collected.
Sweep(s) ==
    LET kept == Subtree(s, DocSoup, MaxNodes)
    IN  [kind     |-> [n \in Node |-> IF n \in kept THEN s.kind[n] ELSE "free"],
         name     |-> [n \in Node |-> IF n \in kept THEN s.name[n] ELSE ""],
         txt      |-> [n \in Node |-> IF n \in kept THEN s.txt[n] ELSE <<>>],
         attrs    |-> [n \in Node |-> IF n \in kept THEN s.attrs[n] ELSE <<>>],
         parent   |-> [n \in Node |-> IF n \in kept THEN s.parent[n] ELSE None],
         contents |-> [n \in Node |-> IF n \in kept THEN s.contents[n] ELSE <<>>],
         ns       |-> [n \in Node |-> IF n \in kept THEN s.ns[n] ELSE None],
         ps       |-> [n \in Node |-> IF n \in kept THEN s.ps[n] ELSE None],
         ne       |-> [n \in Node |-> IF n \in kept THEN s.ne[n] ELSE None],
         pe       |-> [n \in Node |-> IF n \in kept THEN s.pe[n] ELSE None],
         err      |-> ""]

DocReturns(r, op, arg) ==
    /\ calls < MaxDocCalls
    /\ calls' = calls + 1
    /\ r.err \notin {"Hang", "NoMem"}
    /\ dom' = Sweep(r)
    /\ last' = [op |-> op, err |-> r.err, arg |-> arg]
    /\ UNCHANGED els

Write ==
    \E h \in 1..Len(HtmlInputs) : DocReturns(write(dom, HtmlInputs[h]), "write", HtmlInputs[h])

SetTitle ==
    \E value \in TitleInputs : DocReturns(setTitle(dom, value), "title", value)

NextDoc == Write \/ SetTitle

SpecDoc == InitDoc /\ [][NextDoc]_vars

\* ------------------------------------------------------------- claims
Live == {n \in Node : dom.kind[n] \in {"doc", "tag", "text"}}
Count(seq, x) == Cardinality({i \in 1..Len(seq) : seq[i] = x})

\* The proper ancestors of n along the parent references.
RECURSIVE AncestorsOf(_, _, _)
AncestorsOf(s, n, fuel) ==
    IF s.parent[n] = None \/ fuel = 0 THEN {}
    ELSE {s.parent[n]} \cup AncestorsOf(s, s.parent[n], fuel - 1)

\* C1: in every reachable tree, for all nodes n and p, the parent reference of
\* n is p if and only if n occurs exactly once in the child sequence of p.
C1_ParentChildSymmetry ==
    \A n \in Live : \A p \in Live :
        (dom.parent[n] = p) <=> (Count(dom.contents[p], n) = 1)

\* Both halves of C2: no node is its own ancestor, and no node occurs more than
\* once in the child sequences (a node is moved, never duplicated).
C2_AcyclicNoDuplicate ==
    /\ \A n \in Live : n \notin AncestorsOf(dom, n, MaxNodes)
    /\ \A n \in Live :
          Cardinality({<<p, i>> \in Live \X (1..MaxNodes) :
                          i <= Len(dom.contents[p]) /\ dom.contents[p][i] = n}) <= 1

\* C2, its first half: in every reachable tree no node is its own ancestor
\* (a call that inserts a node into one of its own descendants included).
C2_NoNodeIsItsOwnAncestor == \A n \in Live : n \notin AncestorsOf(dom, n, MaxNodes)


\* What a node and the subtree under it look like: kind, name, text, attributes
\* and the same of the children, object identities left out.
RECURSIVE Shape(_, _, _)
Shape(s, n, fuel) ==
    [k |-> s.kind[n], nm |-> s.name[n], t |-> s.txt[n], a |-> s.attrs[n],
     c |-> IF fuel = 0 THEN <<>>
           ELSE [i \in 1..Len(s.contents[n]) |-> Shape(s, s.contents[n][i], fuel - 1)]]

Shapes(s, seq) == [i \in 1..Len(seq) |-> Shape(s, seq[i], MaxNodes)]

\* The forest the parser makes of html: the shapes of its top-level nodes.
ParsedForest(html) == Shapes(Parse(EmptyStore, html), Parse(EmptyStore, html).contents[1])

\* The step is a call of the named method that returned r (with exception
\* r.err, "" for none).
StepIs(op, r) == last'.op = op /\ last'.err = r.err /\ dom' = Collect(dom, r, {})

\* C6: after node.innerHTML = html returns, the children of node are exactly
\* the top-level nodes html parses to, in their order, and no previous child of
\* node is still a child of node.
C6_InnerHTMLReplacesChildren ==
    [][\A self \in Targets : \A h \in 1..Len(HtmlInputs) :
          (StepIs("innerHTML", setInnerHTML(dom, self, HtmlInputs[h])) /\ last'.err = "")
          => /\ Shapes(dom', dom'.contents[self]) = ParsedForest(HtmlInputs[h])
             /\ \A c \in SeqToSet(dom.contents[self]) :
                   c \notin SeqToSet(dom'.contents[self]) /\ dom'.parent[c] # self]_vars


\* C7: insertBefore(p, newChild, refChild) and replaceChild(p, newChild, oldChild)
\* with a reference child that is not (by identity) a child of p fail with the
\* not-found error and leave the tree unchanged.  The not-found error of the
\* code is the exception list.index raises; the statement asks only that the
\* call raises.
C7_MissingReferenceFails ==
    [][\A self \in Targets : \A new \in Elems : \A ref \in Elems :
          (ref \notin SeqToSet(dom.contents[self])
             /\ \/ StepIs("insertBefore", insertBefore(dom, self, new, ref))
                \/ StepIs("replaceChild", replaceChild(dom, self, new, ref)))
          => (last'.err # "" /\ dom' = dom)]_vars

\* C8: replaceChild(p, newChild, oldChild) with oldChild the child of p at index
\* i (newChild another node, not a child of p) leaves p with its old children
\* and newChild at index i, oldChild without a parent, newChild with parent p
\* and in no other child sequence.
C8_ReplaceChildIsRemoveThenInsert ==
    [][\A self \in Targets : \A new \in Elems : \A old \in Elems :
          (/\ IndexOf(dom.contents[self], old) > 0
           /\ new # old
           /\ new \notin SeqToSet(dom.contents[self])
           /\ StepIs("replaceChild", replaceChild(dom, self, new, old))
           /\ last'.err = "")
          => /\ dom'.contents[self] =
                   [dom.contents[self] EXCEPT ![IndexOf(dom.contents[self], old)] = new]
             /\ dom'.parent[old] = None
             /\ dom'.parent[new] = self
             /\ \A q \in Node \ {self} : new \notin SeqToSet(dom'.contents[q])]_vars

ValidPositions == {"beforebegin", "afterbegin", "beforeend", "afterend"}

\* The outcome C9 asks of an adjacent insert at position pos next to self: a
\* failure that leaves the tree as it was, when self has no parent and pos is
\* beforebegin or afterend (any exception counts), or when pos is no position
\* (ValueError).
AdjacentOutcomeOk(self, pos) ==
    /\ (pos \in {"beforebegin", "afterend"} /\ dom.parent[self] = None)
          => (last'.err # "" /\ dom' = dom)
    /\ pos \notin ValidPositions => (last'.err = "ValueError" /\ dom' = dom)

\* C9: insertAdjacentHTML and insertAdjacentElement fail, the tree unchanged,
\* at beforebegin or afterend of a node without a parent and at a position
\* that is none of the four.
C9_AdjacentInsertFailsCleanly ==
    [][\A self \in Targets : \A pos \in Positions :
          /\ \A h \in 1..Len(HtmlInputs) :
                StepIs("insertAdjacentHTML", insertAdjacentHTML(dom, self, pos, HtmlInputs[h]))
                => AdjacentOutcomeOk(self, pos)
          /\ \A el \in Elems :
                StepIs("insertAdjacentElement", insertAdjacentElement(dom, self, pos, el))
                => AdjacentOutcomeOk(self, pos)]_vars

\* C3: the callbacks a triggerEvent invokes are, in set and in order, the
\* listener list of the event as it was when the dispatch began, whatever the
\* callbacks add or remove meanwhile.
C3_DispatchUsesSnapshot ==
    last.op = "triggerEvent" => last.fired = last.snap

\* C4: for two handles of one node, a listener registered through one is
\* invoked by triggerEvent through the other, and the items of a style write
\* through one are in the style mapping of the other.
C4_HandlesShareNodeState ==
    \A h2 \in Held :
        (last.op \in {"addEventListener", "style"} /\ els[h2].tag = els[last.h].tag)
        => /\ last.op = "addEventListener"
                 => last.cb \in SeqToSet(triggerEvent(els[h2], last.event, <<>>).fired)
           /\ last.op = "style"
                 => \A i \in 1..Len(last.style) :
                       /\ Has(els[h2].style, last.style[i][1])
                       /\ Get(els[h2].style, last.style[i][1]) = last.style[i][2]

\* C5: after a style write the style attribute of the node is the serialization
\* of the style mapping of every handle of that node.
C5_StyleAttributeMatchesMappings ==
    \A h \in Held :
        (last.op = "style" /\ els[h].tag = els[last.h].tag)
        => /\ Has(dom.attrs[els[h].tag], "style")
           /\ Get(dom.attrs[els[h].tag], "style") = StyleText(els[h].style)

\* The nodes whose fields differ between two stores.
Changed(s, t) ==
    {n \in Node : \/ s.kind[n] # t.kind[n] \/ s.name[n] # t.name[n] \/ s.txt[n] # t.txt[n]
                  \/ s.attrs[n] # t.attrs[n] \/ s.parent[n] # t.parent[n]
                  \/ s.contents[n] # t.contents[n] \/ s.ns[n] # t.ns[n] \/ s.ps[n] # t.ps[n]
                  \/ s.ne[n] # t.ne[n] \/ s.pe[n] # t.pe[n]}

\* What C10 asks of the tag c that cloneNode(deep) of self returned.
CloneOk(self, deep, c) ==
    /\ c # None
    /\ dom'.parent[c] = None
    /\ dom'.name[c] = dom.name[self]
    /\ dom'.attrs[c] = dom.attrs[self]
    /\ deep => Shape(dom', c, MaxNodes) = Shape(dom, self, MaxNodes)
    /\ ~deep => dom'.contents[c] = <<>>
    /\ \A n \in Subtree(dom', c, MaxNodes) : dom.kind[n] = "free"
    /\ \A n \in Changed(dom, dom') : dom.kind[n] = "free"

\* C10: cloneNode(deep) returns a node without a parent, with the name and the
\* attributes of the original, made of new objects only and leaving every
\* existing object as it was; its subtree has the shape of the original's when
\* deep, and it has no children when not deep.
C10_CloneIsDetachedCopy ==
    [][\A self \in Elems : \A deep \in BOOLEAN :
          (/\ last'.op = "cloneNode"
           /\ last'.err = ""
           /\ cloneNode(dom, self, deep).err = ""
           /\ dom' = Collect(dom, cloneNode(dom, self, deep), Cloned(dom, self)))
          => CloneOk(self, deep, CloneTag(dom, self))]_vars

\* The keys of a mapping, in its order.
KeysOf(m) == [i \in 1..Len(m) |-> m[i][1]]

\* 'k: v' pairs joined with '; ', in the order of m.
RECURSIVE PairsText(_)
PairsText(m) ==
    IF m = <<>> THEN <<>>
    ELSE m[1][1] \o <<":", " ">> \o m[1][2]
            \o (IF Len(m) > 1 THEN <<";", " ">> \o PairsText(Tail(m)) ELSE <<>>)

\* new is old merged with the written items d: the keys of old keep their
\* places, the keys first written by d follow in d's order, each key occurs
\* once, and a key has d's value when d writes it and its old value otherwise.
MergedWith(old, d, new) ==
    LET Fresh(k) == ~Has(old, k)
    IN  /\ KeysOf(new) = KeysOf(old) \o SelectSeq(KeysOf(d), Fresh)
        /\ \A i, j \in 1..Len(new) : new[i][1] = new[j][1] => i = j
        /\ \A i \in 1..Len(new) :
              new[i][2] = IF Has(d, new[i][1]) THEN Get(d, new[i][1]) ELSE Get(old, new[i][1])

\* C11: every style write through a handle merges into that handle's mapping
\* with last-write-wins per key and stable key positions, and leaves the style
\* attribute listing each key once, in order of first insertion, with the most
\* recently written value, as 'k: v' joined with '; '.
C11_StyleWritesMerge ==
    [][last'.op = "style" /\ calls' = calls + 1
          => /\ MergedWith(els[last'.h].style, last'.style, els'[last'.h].style)
             /\ Has(dom'.attrs[els[last'.h].tag], "style")
             /\ Get(dom'.attrs[els[last'.h].tag], "style") = PairsText(els'[last'.h].style)]_vars

\* The example of C11: {color: red}, {background: blue}, {color: green} written
\* through one handle, the attribute reading 'color: green; background: blue'.
C11_Witness ==
    /\ last.op = "style"
    /\ last.style = << <<<<"color">>, <<"green">>>> >>
    /\ els[last.h].style = << <<<<"color">>, <<"green">>>>, <<<<"background">>, <<"blue">>>> >>
    /\ Get(dom.attrs[els[last.h].tag], "style")
          = <<"color", ":", " ", "green", ";", " ", "background", ":", " ", "blue">>

NoDuplicate(seq) == \A i, j \in 1..Len(seq) : seq[i] = seq[j] => i = j

\* What C12 asks of a step addClass(x) / removeClass(x) on tag: before is the
\* class list before, after the one after.
ClassStepOk(op, x, before, after, attrsAfter) ==
    /\ NoDuplicate(after)
    /\ Has(attrsAfter, "class") <=> after # <<>>
    /\ op = "addClass"
          => after = IF IndexOf(before, x) # 0 THEN before ELSE Append(before, x)
    /\ op = "removeClass"
          => /\ IndexOf(after, x) = 0
             /\ LET Other(c) == c # x IN after = SelectSeq(before, Other)

\* C12: after every addClass / removeClass the class list has no duplicate
\* token and keeps its order; addClass(x) of a present x and removeClass(x) of
\* an absent x change nothing; after removeClass(x) the token x is not in the
\* list; the class attribute is absent when the list is empty.
C12_ClassListInSync ==
    [][last'.op \in {"addClass", "removeClass"} /\ calls' = calls + 1
          => /\ ClassStepOk(last'.op, last'.cls, classList(dom, last'.tag),
                            classList(dom', last'.tag), dom'.attrs[last'.tag])
             /\ \A n \in Node \ {last'.tag} : dom'.attrs[n] = dom.attrs[n]]_vars

\* The tags named nm in the document.
Named(s, nm) == {n \in Subtree(s, DocSoup, MaxNodes) : s.kind[n] = "tag" /\ s.name[n] = nm}

\* C13: after write(html) there is exactly one body, inside an html element,
\* its children are the nodes html parses to, in order, no previous body child
\* is left in the document, and a second write of the same html gives the same
\* tree as the first.
C13_WriteReplacesBody ==
    [][last'.op = "write" /\ last'.err = "" /\ calls' = calls + 1
          => /\ Cardinality(Named(dom', "body")) = 1
             /\ \A b \in Named(dom', "body") :
                   /\ dom'.parent[b] \in Named(dom', "html")
                   /\ Shapes(dom', dom'.contents[b]) = ParsedForest(last'.arg)
             /\ \A b \in Named(dom, "body") : \A c \in SeqToSet(dom.contents[b]) :
                   c \notin Subtree(dom', DocSoup, MaxNodes)
             /\ (last.op = "write" /\ last.arg = last'.arg)
                   => Shape(dom', DocSoup, MaxNodes) = Shape(dom, DocSoup, MaxNodes)]_vars

\* C14: after title = v the getter returns v, the first title is a child of a
\* head, that head is the first child of an html element, an html, head or
\* title that existed is reused and no other is made.
C14_TitleSetterScaffolds ==
    [][last'.op = "title" /\ last'.err = "" /\ calls' = calls + 1
          => /\ getTitle(dom') = last'.arg
             /\ FindByName(dom', DocSoup, "title") # None
             /\ dom'.parent[FindByName(dom', DocSoup, "title")] \in Named(dom', "head")
             /\ dom'.parent[dom'.parent[FindByName(dom', DocSoup, "title")]] \in Named(dom', "html")
             /\ \A h \in Named(dom', "html") :
                   dom'.parent[FindByName(dom', DocSoup, "title")] \in SeqToSet(dom'.contents[h])
                   => dom'.contents[h][1] = dom'.parent[FindByName(dom', DocSoup, "title")]
             /\ \A nm \in {"html", "head", "title"} :
                   /\ Named(dom, nm) # {} => Named(dom', nm) = Named(dom, nm)
                   /\ Named(dom, nm) = {} => Cardinality(Named(dom', nm)) = 1]_vars

\* How often node c occurs in the child sequences of store s.
Occurrences(s, c) ==
    Cardinality({<<p, i>> \in Node \X (1..MaxNodes) :
                    i <= Len(s.contents[p]) /\ s.contents[p][i] = c})

\* C15: append(html) puts every node html parses to, in its order, after the
\* existing children, prependText(html) puts them, in the same order, before
\* the existing children, which keep their order; append(element) and
\* prependText(element) move the node: it is the last (first) child and occurs
\* once in the tree.
C15_AppendPrependKeepFragmentOrder ==
    [][\A self \in Targets :
          /\ \A h \in 1..Len(HtmlInputs) :
                /\ (StepIs("append", append(dom, self, StrContent(HtmlInputs[h])))
                      /\ last'.err = "")
                   => /\ Len(dom'.contents[self]) >= Len(dom.contents[self])
                      /\ SubSeq(dom'.contents[self], 1, Len(dom.contents[self]))
                            = dom.contents[self]
                      /\ Shapes(dom', SubSeq(dom'.contents[self], Len(dom.contents[self]) + 1,
                                             Len(dom'.contents[self])))
                            = ParsedForest(HtmlInputs[h])
                /\ (StepIs("prependText", prependText(dom, self, StrContent(HtmlInputs[h])))
                      /\ last'.err = "")
                   => /\ Len(dom'.contents[self]) >= Len(dom.contents[self])
                      /\ SubSeq(dom'.contents[self],
                                Len(dom'.contents[self]) - Len(dom.contents[self]) + 1,
                                Len(dom'.contents[self])) = dom.contents[self]
                      /\ Shapes(dom', SubSeq(dom'.contents[self], 1,
                                             Len(dom'.contents[self]) - Len(dom.contents[self])))
                            = ParsedForest(HtmlInputs[h])
          /\ \A c \in Elems :
                /\ (StepIs("append", append(dom, self, ElContent(c))) /\ last'.err = "")
                   => /\ dom'.contents[self] # <<>>
                      /\ dom'.contents[self][Len(dom'.contents[self])] = c
                      /\ Occurrences(dom', c) = 1
                /\ (StepIs("prependText", prependText(dom, self, ElContent(c)))
                      /\ last'.err = "")
                   => /\ dom'.contents[self] # <<>>
                      /\ dom'.contents[self][1] = c
                      /\ Occurrences(dom', c) = 1]_vars

\* The callbacks that leave the listener lists alone.
Quiet(list) == \A i \in 1..Len(list) : list[i] \in {"plain", "other"}

\* C16: the listeners of an event are an ordered multiset.  addEventListener
\* adds one occurrence at the end; removeEventListener takes out every
\* occurrence of the callback and keeps the order of the rest; neither touches
\* another event.  triggerEvent(event, args) invokes every occurrence in the list
\* of that event once, in order, each with args, and nothing else, and leaves
\* the lists as they are (for listeners that do not change the lists themselves
\* during the dispatch, which C3 is about).
C16_ListenersAreOrderedMultiset ==
    [][calls' = calls + 1 /\ last'.op \in {"addEventListener", "removeEventListener", "triggerEvent"}
          => LET h == last'.h
                 before == ListenersOf(els[h], last'.event)
                 after == ListenersOf(els'[h], last'.event)
                 NotIt(cb) == cb # last'.cb
             IN  /\ \A e \in EventNames \ {last'.event} :
                       ListenersOf(els'[h], e) = ListenersOf(els[h], e)
                 /\ last'.op = "addEventListener" => after = Append(before, last'.cb)
                 /\ last'.op = "removeEventListener" => after = SelectSeq(before, NotIt)
                 /\ (last'.op = "triggerEvent" /\ Quiet(before))
                       => /\ last'.fired = before
                          /\ last'.passed = [i \in 1..Len(before) |-> last'.args]
                          /\ after = before]_vars

\* A dispatch to a list with a repeated listener and arguments, after a removal
\* is possible: three occurrences of two callbacks invoked in order.
C16_Witness ==
    /\ last.op = "triggerEvent"
    /\ last.args = <<"e">>
    /\ last.fired = <<"plain", "other", "plain">>
    /\ last.passed = << <<"e">>, <<"e">>, <<"e">> >>

\* C17: wrapping a node whose style attribute is the serialization of a
\* mapping m (here the mapping of a handle that wrote it) succeeds and gives a
\* handle whose style mapping is m, a value with a colon in it included.
C17_StyleSeedRoundTrip ==
    (last.op = "getElementById" /\ last.tag # None)
    => \A h2 \in Held :
          (/\ els[h2].tag = last.tag
           /\ Has(dom.attrs[last.tag], "style")
           /\ Get(dom.attrs[last.tag], "style") = PairsText(els[h2].style))
          => (last.err = "" /\ els[last.h].style = els[h2].style)

\* The chain n, parent(n), parent(parent(n)), ... as far as it goes.
RECURSIVE ChainUp(_, _, _)
ChainUp(s, n, fuel) ==
    IF n = None \/ fuel = 0 THEN <<>> ELSE <<n>> \o ChainUp(s, s.parent[n], fuel - 1)

\* C18: on every reachable tree closest(selector) returns, and what it returns
\* is the first node of the chain node, parent, parent of parent, ... for which
\* matches(selector) holds, none when there is no such node.
C18_ClosestTerminates ==
    \A n \in Targets : \A selector \in Selectors :
        /\ closest(dom, n, selector, MaxNodes) # Hang
        /\ closest(dom, n, selector, MaxNodes) =
              FirstIn(ChainUp(dom, n, MaxNodes + 1),
                      {m \in Node : matches(dom, m, selector) = "T"})

\* C19: insertBefore(newChild, refChild) on p, refChild a child of p and
\* newChild another node, leaves newChild in p immediately before that very
\* refChild, the other children of p in their order.
C19_InsertBeforeByIdentity ==
    [][\A self \in Targets : \A new \in Elems : \A ref \in Elems :
          (/\ IndexOf(dom.contents[self], ref) # 0
           /\ new # ref
           /\ StepIs("insertBefore", insertBefore(dom, self, new, ref))
           /\ last'.err = "")
          => LET NotNew(c) == c # new
             IN  /\ IndexOf(dom'.contents[self], new) # 0
                 /\ IndexOf(dom'.contents[self], new) + 1 = IndexOf(dom'.contents[self], ref)
                 /\ SelectSeq(dom'.contents[self], NotNew)
                       = SelectSeq(dom.contents[self], NotNew)]_vars

\* The k nodes of seq from position from on, as shapes; <<>> when they are not
\* all there.
ShapesAt(s, seq, from, k) ==
    IF from < 1 \/ from + k - 1 > Len(seq) THEN <<>>
    ELSE Shapes(s, SubSeq(seq, from, from + k - 1))

\* Where the nodes html parses to are after insertAdjacentHTML at pos on self:
\* the k places just before self or just after self among the children of its
\* parent, or the first or the last k places among the children of self.
PlacedShapes(s, self, pos, k) ==
    LET sibs == s.contents[s.parent[self]]
        kids == s.contents[self]
    IN  IF pos = "beforebegin" THEN ShapesAt(s, sibs, IndexOf(sibs, self) - k, k)
        ELSE IF pos = "afterend" THEN ShapesAt(s, sibs, IndexOf(sibs, self) + 1, k)
        ELSE IF pos = "afterbegin" THEN ShapesAt(s, kids, 1, k)
        ELSE ShapesAt(s, kids, Len(kids) - k + 1, k)

\* C20: insertAdjacentHTML on a node n that has a parent puts every top-level
\* node the html parses to, in the order of the fragment, immediately before n
\* (beforebegin), immediately after n (afterend), as the first children of n
\* (afterbegin) or as the last children of n (beforeend); none is dropped and
\* the order is not reversed.
C20_AdjacentHTMLKeepsFragmentOrder ==
    [][\A self \in Targets : \A pos \in ValidPositions : \A h \in 1..Len(HtmlInputs) :
          (/\ dom.parent[self] # None
           /\ StepIs("insertAdjacentHTML", insertAdjacentHTML(dom, self, pos, HtmlInputs[h]))
           /\ last'.err = "")
          => /\ dom'.parent[self] = dom.parent[self]
             /\ IndexOf(dom'.contents[dom'.parent[self]], self) # 0
             /\ PlacedShapes(dom', self, pos, Len(ParsedForest(HtmlInputs[h])))
                   = ParsedForest(HtmlInputs[h])]_vars

====
